---- MODULE Spec2Model ----
(***************************************************************************)
(* Model of zim.fs.File (src/zim/fs.py): the write protocol of File.open / *)
(* FileHandle.close / File._on_write (temp file, flush, fsync, rename) and *)
(* the overwrite check of File._checkoverwrite / File._assertoverwrite.    *)
(*                                                                         *)
(* One File object works on one path.  Every system call of a method is    *)
(* one step, so that an external process (the Ext actions) and a crash can *)
(* fall between any two of them.                                           *)
(*                                                                         *)
(* Scope of the data: texts are ASCII (one character, "a"), so the utf-8   *)
(* codec maps one character to one byte; modification times are the        *)
(* positive ticks 1..MaxTime of the file system clock; the parent          *)
(* directory, when it exists, is writable.                                 *)
(***************************************************************************)
EXTENDS Integers, Sequences, FiniteSets, TLC

\* ------------------------------------------------------------------ bounds
MaxLen == 2      \* longest text, in characters
MaxTime == 2     \* last tick of the file system clock

\* ------------------------------------------------------------------ data
Chars == {"a"}
ByteOf(c) == 97
CharOf(b) == "a"

Texts == UNION {[1..n -> Chars] : n \in 0..MaxLen}

RECURSIVE Flatten(_)
Flatten(ls) == IF ls = <<>> THEN <<>> ELSE Head(ls) \o Flatten(Tail(ls))

\* the arguments of writelines(): lists of non-empty lines
LineLists == {ls \in UNION {[1..n -> Texts \ {<<>>}] : n \in 0..MaxLen} :
                Len(Flatten(ls)) <= MaxLen}

\* file.readlines() on a text without line ends
SplitLines(t) == IF t = <<>> THEN <<>> ELSE <<t>>

\* A Python value that is a list of lines is kept as the text it concatenates
\* to: file.writelines(lines) writes that text and md5() digests exactly it
\* ("for l in content: m.update(l)").
\* codecs utf-8 StreamWriter / StreamReader on ASCII text
Encode(t) == [i \in 1..Len(t) |-> ByteOf(t[i])]
\* Mutation of Decode: the reader loses the last byte.
Decode_DropLast(bs) == [i \in 1..(Len(bs) - 1) |-> CharOf(bs[i])]

Decode(bs) == [i \in 1..Len(bs) |-> CharOf(bs[i])]

\* md5() of _assertoverwrite; the digest is taken as injective, so it is
\* kept as the text it digests
md5(t) == t

Prefixes(bs) == {SubSeq(bs, 1, n) : n \in 0..Len(bs)}

NoneT == -1
\* "if self._mtime": None and 0.0 are both false
Truthy(m) == m # NoneT /\ m # 0

NoFile == [exists |-> FALSE, data |-> <<>>, mtime |-> 0, mode |-> FALSE, synced |-> TRUE]
MkFile(d, t, w, s) == [exists |-> TRUE, data |-> d, mtime |-> t, mode |-> w, synced |-> s]

\* Of a temp file left behind only the data is kept: nothing reads its times
\* or its sync state again, the next open('w') truncates it.
StaleTmp(d) == MkFile(d, 0, TRUE, TRUE)

\* Of a backup file path + '~' only the data is kept as well: _on_write tests
\* that it exists and removes it, nothing reads it.
Backup(d) == MkFile(d, 0, TRUE, TRUE)

NoCall == [op |-> "none", arg |-> <<>>, got |-> <<>>]
NoLast == [op |-> "none", arg |-> <<>>, result |-> "none", fault |-> "none"]

VARIABLES
  target,          \* the file at self.path
  tmp,             \* the file at self.path + '.zim.new~'
  buf,             \* user-space buffer of the open FileHandle
  back,            \* the file at self.path + '~' (Windows commit)
  dir,             \* the parent directory exists
  now,             \* the file system clock
  isWindows,       \* isinstance(self, WindowsPath)
  checkoverwrite,  \* self.checkoverwrite
  mtime_,          \* self._mtime
  content_,        \* self._content
  pc,              \* position of the running method
  call,            \* the running method, its argument and locals
  result,          \* how the method ended
  events,          \* history: the system calls of the temp-file protocol done in this call
  hadRec,          \* history: self._mtime was set when the call began
  pre,             \* history: the target when the call began (NoFile once another process has acted)
  last,            \* history: the call that returned last (NoLast once another process has acted)
  fresh,           \* history: _mtime and _content were taken from the target as it is now
  extDuring,       \* history: another process acted during the call
  extMod,          \* history: "modified" once another process has changed both the time
                   \* and the content of the target since read() last took its content
  faultAt          \* history: the step of this call that failed with an injected I/O error

fsVars == <<target, tmp, buf, back, dir, now>>
objVars == <<isWindows, checkoverwrite, mtime_, content_>>
procVars == <<pc, call, result>>
histVars == <<events, hadRec, pre, last, fresh, extDuring, extMod, faultAt>>
vars == <<fsVars, objVars, procVars, histVars>>

\* ------------------------------------------------------------------ Init
\* File.__init__: a fresh File object on a path in an empty directory
InitCommon ==
  /\ target = NoFile /\ tmp = NoFile /\ back = NoFile /\ buf = <<>>
  /\ dir = TRUE /\ now = 1
  /\ checkoverwrite \in BOOLEAN
  /\ mtime_ = NoneT /\ content_ = <<>>
  /\ pc = "idle" /\ call = NoCall /\ result = "none"
  /\ events = <<>> /\ hadRec = FALSE /\ pre = NoFile /\ fresh = FALSE
  /\ last = NoLast
  /\ extDuring = FALSE /\ extMod = "noread" /\ faultAt = "none"

\* os.name == 'posix': Path = UnixPath
Init == InitCommon /\ isWindows = FALSE

\* os.name == 'nt': Path = WindowsPath
InitWin == InitCommon /\ isWindows = TRUE

\* ------------------------------------------------------------------ other processes
\* History kept by every step of another process.
ExtHist ==
  /\ extDuring' = (extDuring \/ pc # "idle")
  /\ pre' = NoFile
  /\ last' = NoLast
  /\ UNCHANGED <<events, hadRec, faultAt>>

\* Another process writes the target (creating it when missing).
ExtWrite(d) ==
  /\ dir
  /\ target' = MkFile(d, now, IF target.exists THEN target.mode ELSE TRUE, TRUE)
  /\ extMod' = IF extMod = "clean" /\ target.exists /\ d # target.data /\ now # target.mtime
               THEN "modified" ELSE extMod
  /\ fresh' = FALSE
  /\ ExtHist
  /\ UNCHANGED <<tmp, buf, back, dir, now, objVars, procVars>>

\* Another process touches the target: new modification time, same content.
ExtTouch ==
  /\ target.exists /\ target.mtime # now
  /\ target' = [target EXCEPT !.mtime = now]
  /\ fresh' = FALSE
  /\ ExtHist
  /\ UNCHANGED <<tmp, buf, back, dir, now, objVars, procVars, extMod>>

\* Another process deletes the target.
ExtDelete ==
  /\ target.exists
  /\ target' = NoFile
  /\ fresh' = FALSE
  /\ ExtHist
  /\ UNCHANGED <<tmp, buf, back, dir, now, objVars, procVars, extMod>>

\* Another process changes the owner-write bit of the target.
ExtChmod ==
  /\ target.exists
  /\ target' = [target EXCEPT !.mode = ~target.mode]
  /\ ExtHist
  /\ UNCHANGED fresh
  /\ UNCHANGED <<tmp, buf, back, dir, now, objVars, procVars, extMod>>

\* Another process creates the parent directory, or removes it when empty.
ExtDir ==
  /\ \/ ~dir /\ dir' = TRUE
     \/ dir /\ ~target.exists /\ ~tmp.exists /\ ~back.exists /\ dir' = FALSE
  /\ ExtHist
  /\ UNCHANGED fresh
  /\ UNCHANGED <<target, tmp, buf, back, now, objVars, procVars, extMod>>

\* Another program leaves a backup file path + '~' behind.
ExtBackup(d) ==
  /\ dir /\ ~back.exists
  /\ back' = Backup(d)
  /\ ExtHist
  /\ UNCHANGED fresh
  /\ UNCHANGED <<target, tmp, buf, dir, now, objVars, procVars, extMod>>

\* The file system clock advances.
Tick ==
  /\ now < MaxTime
  /\ now' = now + 1
  /\ UNCHANGED <<target, tmp, buf, back, dir, objVars, procVars, histVars>>

\* ------------------------------------------------------------------ method entry and exit
WriteOps == {"write", "writelines"}
ReadOps == {"read", "readlines"}

\* A method of the File is called: its history starts.
Enter(op, arg, first) ==
  /\ pc = "idle"
  /\ pc' = first
  /\ call' = [op |-> op, arg |-> arg, got |-> <<>>]
  /\ result' = "none"
  /\ events' = <<>> /\ hadRec' = Truthy(mtime_) /\ pre' = target
  /\ extDuring' = FALSE /\ faultAt' = "none"
  /\ UNCHANGED <<fsVars, objVars, fresh, last>>

\* The method ends with r (an exception, or "ok").
Finish(r) ==
  /\ pc' = "done"
  /\ result' = r

\* The caller takes the result; the File is idle again.  l is what the
\* history keeps of the call.
Leave(l) ==
  /\ pc = "done"
  /\ pc' = "idle" /\ call' = NoCall /\ result' = "none"
  /\ events' = <<>> /\ hadRec' = FALSE /\ pre' = NoFile
  /\ last' = l
  /\ extDuring' = FALSE /\ faultAt' = "none"
  /\ UNCHANGED <<fsVars, objVars, extMod, fresh>>

\* The method returns (or raises) to a caller of which no history is kept.
Return == Leave(NoLast)

\* What the history keeps of a call: the method, how it ended, what it wrote
\* when it succeeded, and whether it left behind a temp file that it had opened.
Outcome ==
  [op |-> call.op,
   arg |-> IF result = "ok" /\ call.op \in WriteOps THEN call.arg ELSE <<>>,
   result |-> result,
   fault |-> IF tmp.exists /\ events # <<>> THEN "tmp" ELSE "none"]

\* The method returns (or raises) to a caller that goes on with this File:
\* the history keeps the call (one that no other process interfered with), so
\* that the next call can be compared with it.
ReturnOn == ~extDuring /\ Leave(Outcome)

\* An injected I/O error at step s: the exception leaves the method.
Fault(s) ==
  /\ Finish("IOError")
  /\ faultAt' = s

\* ------------------------------------------------------------------ File.read / File.readlines
ReadBegin(op) ==
  /\ op \in ReadOps
  /\ Enter(op, <<>>, "read_exists")
  /\ UNCHANGED extMod

\* Mutation of ReadExists: the empty result for a missing file is recorded
\* like the content of a file.
ReadExists_Record ==
  /\ pc = "read_exists"
  /\ IF target.exists
     THEN pc' = "read_open" /\ UNCHANGED <<result, mtime_, content_>>
     ELSE /\ Finish("ok")
          /\ mtime_' = IF checkoverwrite THEN now ELSE mtime_
          /\ content_' = IF checkoverwrite THEN <<>> ELSE content_
  /\ UNCHANGED <<fsVars, isWindows, checkoverwrite, call, histVars>>

\* "if not self.exists(): return ''" (readlines: [])
ReadExists ==
  /\ pc = "read_exists"
  /\ IF target.exists
     THEN pc' = "read_open" /\ UNCHANGED result
     ELSE Finish("ok")
  /\ UNCHANGED <<fsVars, objVars, call, histVars>>

\* file = self.open('r', encoding); content = file.read() (readlines: file.readlines())
ReadOpen ==
  /\ pc = "read_open"
  /\ IF target.exists
     THEN /\ pc' = "read_record"
          /\ call' = [call EXCEPT !.got = IF call.op = "read"
                                          THEN Decode(target.data)
                                          ELSE Flatten(SplitLines(Decode(target.data)))]
          /\ extMod' = "clean"
          /\ UNCHANGED result
     ELSE Finish("IOError") /\ UNCHANGED <<call, extMod>>
  /\ UNCHANGED <<fsVars, objVars>>
  /\ UNCHANGED <<events, hadRec, pre, last, fresh, extDuring, faultAt>>

\* Mutation of CheckOverwrite: the content is recorded, the time is not.
CheckOverwrite_StaleMtime(content) ==
  IF ~checkoverwrite
  THEN Finish("ok") /\ UNCHANGED <<mtime_, content_, fresh>>
  ELSE IF ~target.exists
  THEN Finish("IOError") /\ UNCHANGED <<mtime_, content_, fresh>>
  ELSE /\ Finish("ok")
       /\ mtime_' = IF Truthy(mtime_) THEN mtime_ ELSE target.mtime
       /\ content_' = content
       /\ fresh' = ~extDuring

\* File._checkoverwrite(content): "if self.checkoverwrite: self._mtime = self.mtime();
\* self._content = content"; mtime() is os.stat, which raises when the file is gone
CheckOverwrite(content) ==
  IF ~checkoverwrite
  THEN Finish("ok") /\ UNCHANGED <<mtime_, content_, fresh>>
  ELSE IF ~target.exists
  THEN Finish("IOError") /\ UNCHANGED <<mtime_, content_, fresh>>
  ELSE /\ Finish("ok")
       /\ mtime_' = target.mtime
       /\ content_' = content
       /\ fresh' = ~extDuring

ReadRecord ==
  /\ pc = "read_record"
  /\ CheckOverwrite(call.got)
  /\ UNCHANGED <<fsVars, isWindows, checkoverwrite, call>>
  /\ UNCHANGED <<events, hadRec, pre, last, extDuring, extMod, faultAt>>

\* ------------------------------------------------------------------ File.write / File.writelines
\* write(text) / writelines(lines): "self._assertoverwrite()" comes first
WriteBegin(op, arg) ==
  /\ op \in WriteOps
  /\ Enter(op, arg, "assert_stat")
  /\ UNCHANGED extMod

\* Mutation of AssertStat: the record is trusted, the file is never looked at.
AssertStat_TrustRecord ==
  /\ pc = "assert_stat"
  /\ pc' = "iswritable"
  /\ UNCHANGED <<fsVars, objVars, call, result, histVars>>

\* Mutation of AssertStat: a different modification time is a conflict at once.
AssertStat_MtimeOnly ==
  /\ pc = "assert_stat"
  /\ IF ~Truthy(mtime_)
     THEN pc' = "iswritable" /\ UNCHANGED result
     ELSE IF ~target.exists
     THEN Finish("IOError")
     ELSE IF mtime_ # target.mtime
     THEN Finish("Conflict")
     ELSE pc' = "iswritable" /\ UNCHANGED result
  /\ UNCHANGED <<fsVars, objVars, call, histVars>>

\* Mutation of AssertStat: writing without reading first is refused.
AssertStat_ForceRead ==
  /\ pc = "assert_stat"
  /\ IF ~Truthy(mtime_)
     THEN Finish("Conflict")
     ELSE IF ~target.exists
     THEN Finish("IOError")
     ELSE IF mtime_ # target.mtime
     THEN pc' = "assert_md5" /\ UNCHANGED result
     ELSE pc' = "iswritable" /\ UNCHANGED result
  /\ UNCHANGED <<fsVars, objVars, call, histVars>>

\* Mutation of AssertStat: a missing file is no conflict.
AssertStat_MissingOk ==
  /\ pc = "assert_stat"
  /\ IF ~Truthy(mtime_)
     THEN pc' = "iswritable" /\ UNCHANGED result
     ELSE IF ~target.exists
     THEN pc' = "iswritable" /\ UNCHANGED result
     ELSE IF mtime_ # target.mtime
     THEN pc' = "assert_md5" /\ UNCHANGED result
     ELSE pc' = "iswritable" /\ UNCHANGED result
  /\ UNCHANGED <<fsVars, objVars, call, histVars>>

\* _assertoverwrite: "if self._mtime and self._mtime != self.mtime()"
\* (mtime() is os.stat: OSError when the file is gone)
AssertStat ==
  /\ pc = "assert_stat"
  /\ IF ~Truthy(mtime_)
     THEN pc' = "iswritable" /\ UNCHANGED result
     ELSE IF ~target.exists
     THEN Finish("IOError")
     ELSE IF mtime_ # target.mtime
     THEN pc' = "assert_md5" /\ UNCHANGED result
     ELSE pc' = "iswritable" /\ UNCHANGED result
  /\ UNCHANGED <<fsVars, objVars, call, histVars>>

\* Mutation of AssertMd5: the digests are compared and the difference is only logged.
AssertMd5_NoRaise ==
  /\ pc = "assert_md5"
  /\ IF ~target.exists
     THEN Finish("IOError")
     ELSE pc' = "iswritable" /\ UNCHANGED result
  /\ UNCHANGED <<fsVars, objVars, call, histVars>>

\* Mutation of AssertMd5: the conflict is raised and the file on disk is
\* taken as the new record.
AssertMd5_Adopt ==
  /\ pc = "assert_md5"
  /\ IF ~target.exists
     THEN Finish("IOError") /\ UNCHANGED <<mtime_, content_>>
     ELSE IF md5(content_) # md5(Decode(target.data))
     THEN /\ Finish("Conflict")
          /\ mtime_' = target.mtime /\ content_' = Decode(target.data)
     ELSE pc' = "iswritable" /\ UNCHANGED <<result, mtime_, content_>>
  /\ UNCHANGED <<fsVars, isWindows, checkoverwrite, call, histVars>>

\* _assertoverwrite: "if md5(self._content) != md5(self.open('r').read()):
\* raise OverWriteError, 'File changed on disk'"
AssertMd5 ==
  /\ pc = "assert_md5"
  /\ IF ~target.exists
     THEN Finish("IOError")
     ELSE IF md5(content_) # md5(Decode(target.data))
     THEN Finish("Conflict")
     ELSE pc' = "iswritable" /\ UNCHANGED result
  /\ UNCHANGED <<fsVars, objVars, call, histVars>>

\* ------------------------------------------------------------------ File.open('w')
\* UnixPath.iswritable: the owner-write bit of the file, or of the directory
\* when the file does not exist (recursing upwards)
iswritable == IF target.exists THEN target.mode ELSE TRUE

\* open('w') called directly: no _assertoverwrite before, no _checkoverwrite after
OpenBegin(arg) ==
  /\ Enter("open", arg, "iswritable")
  /\ UNCHANGED extMod

\* Mutation of IsWritable: the owner-write bit is not looked at.
IsWritable_NoCheck ==
  /\ pc = "iswritable"
  /\ pc' = IF target.exists THEN "open_tmp" ELSE "dir_touch"
  /\ UNCHANGED <<fsVars, objVars, call, result, histVars>>

\* "if not self.iswritable(): raise OverWriteError, 'File is not writable'
\*  elif not self.exists(): self.dir.touch()"
IsWritable ==
  /\ pc = "iswritable"
  /\ IF ~iswritable
     THEN Finish("NotWritable")
     ELSE /\ pc' = IF target.exists THEN "open_tmp" ELSE "dir_touch"
          /\ UNCHANGED result
  /\ UNCHANGED <<fsVars, objVars, call, histVars>>

\* Dir.touch: os.makedirs, EEXIST ignored
DirTouch ==
  /\ pc = "dir_touch"
  /\ \/ /\ dir' = TRUE
        /\ pc' = "open_tmp"
        /\ UNCHANGED <<result, faultAt>>
     \/ /\ ~dir
        /\ Fault("mkdir")
        /\ UNCHANGED dir
  /\ UNCHANGED <<target, tmp, buf, back, now, objVars, call>>
  /\ UNCHANGED <<events, hadRec, pre, last, fresh, extDuring, extMod>>

\* FileHandle(tmp, mode='wb', on_close=self._on_write): creates or truncates
\* path + '.zim.new~'
OpenTmp ==
  /\ pc = "open_tmp"
  /\ \/ /\ dir
        /\ tmp' = MkFile(<<>>, now, TRUE, FALSE)
        /\ events' = Append(events, "open")
        /\ pc' = "write_tmp"
        /\ UNCHANGED <<result, faultAt>>
     \/ /\ ~dir
        /\ Finish("IOError")
        /\ UNCHANGED <<tmp, events, faultAt>>
     \/ /\ Fault("open")
        /\ UNCHANGED <<tmp, events>>
  /\ UNCHANGED <<target, buf, back, dir, now, objVars, call>>
  /\ UNCHANGED <<hadRec, pre, last, fresh, extDuring, extMod>>

\* file.write(text) / file.writelines(lines): encoded into the handle's buffer.
\* A handle dropped by an exception leaves some prefix of its bytes behind.
WriteTmp ==
  /\ pc = "write_tmp"
  /\ \/ /\ buf' = Encode(call.arg)
        /\ events' = Append(events, "write")
        /\ pc' = "flush"
        /\ UNCHANGED <<tmp, result, faultAt>>
     \/ /\ Fault("write")
        /\ \E d \in Prefixes(Encode(call.arg)) : tmp' = StaleTmp(d)
        /\ buf' = <<>>
        /\ UNCHANGED events
  /\ UNCHANGED <<target, back, dir, now, objVars, call>>
  /\ UNCHANGED <<hadRec, pre, last, fresh, extDuring, extMod>>

\* ------------------------------------------------------------------ FileHandle.close
\* Mutation of Flush: the handle is closed right after the flush, without fsync.
Flush_ThenClose ==
  /\ pc = "flush"
  /\ \/ /\ tmp' = [tmp EXCEPT !.data = buf, !.mtime = now, !.synced = FALSE]
        /\ events' = Append(events, "flush")
        /\ pc' = "close"
        /\ UNCHANGED <<result, faultAt>>
     \/ /\ Fault("flush")
        /\ \E d \in Prefixes(buf) : tmp' = StaleTmp(d)
        /\ UNCHANGED events
  /\ buf' = <<>>
  /\ UNCHANGED <<target, back, dir, now, objVars, call>>
  /\ UNCHANGED <<hadRec, pre, last, fresh, extDuring, extMod>>

\* Mutation of Flush: close() runs on_close in a finally clause, so the temp
\* file is committed although the flush failed.
Flush_CommitOnError ==
  /\ pc = "flush"
  /\ \/ /\ tmp' = [tmp EXCEPT !.data = buf, !.mtime = now, !.synced = FALSE]
        /\ events' = Append(events, "flush")
        /\ pc' = "fsync"
        /\ UNCHANGED faultAt
     \/ /\ faultAt' = "flush"
        /\ \E d \in Prefixes(buf) : tmp' = [tmp EXCEPT !.data = d, !.mtime = now]
        /\ pc' = "on_write"
        /\ UNCHANGED events
  /\ buf' = <<>>
  /\ UNCHANGED <<target, back, dir, now, objVars, call, result>>
  /\ UNCHANGED <<hadRec, pre, last, fresh, extDuring, extMod>>

\* "self.flush()"
Flush ==
  /\ pc = "flush"
  /\ \/ /\ tmp' = [tmp EXCEPT !.data = buf, !.mtime = now, !.synced = FALSE]
        /\ events' = Append(events, "flush")
        /\ pc' = "fsync"
        /\ UNCHANGED <<result, faultAt>>
     \/ /\ Fault("flush")
        /\ \E d \in Prefixes(buf) : tmp' = StaleTmp(d)
        /\ UNCHANGED events
  /\ buf' = <<>>
  /\ UNCHANGED <<target, back, dir, now, objVars, call>>
  /\ UNCHANGED <<hadRec, pre, last, fresh, extDuring, extMod>>

\* Mutation of Fsync: the data is not forced to disk before the close.
Fsync_NoSync ==
  /\ pc = "fsync"
  /\ \/ /\ events' = Append(events, "fsync")
        /\ pc' = "close"
        /\ UNCHANGED <<tmp, result, faultAt>>
     \/ /\ Fault("fsync")
        /\ tmp' = StaleTmp(tmp.data)
        /\ UNCHANGED events
  /\ UNCHANGED <<target, buf, back, dir, now, objVars, call>>
  /\ UNCHANGED <<hadRec, pre, last, fresh, extDuring, extMod>>

\* "os.fsync(self.fileno())"
Fsync ==
  /\ pc = "fsync"
  /\ \/ /\ tmp' = [tmp EXCEPT !.synced = TRUE]
        /\ events' = Append(events, "fsync")
        /\ pc' = "close"
        /\ UNCHANGED <<result, faultAt>>
     \/ /\ Fault("fsync")
        /\ tmp' = StaleTmp(tmp.data)
        /\ UNCHANGED events
  /\ UNCHANGED <<target, buf, back, dir, now, objVars, call>>
  /\ UNCHANGED <<hadRec, pre, last, fresh, extDuring, extMod>>

\* "file.close(self)", then "if not self.on_close is None: self.on_close()"
Close ==
  /\ pc = "close"
  /\ \/ /\ events' = Append(events, "close")
        /\ pc' = "on_write"
        /\ UNCHANGED <<tmp, result, faultAt>>
     \/ /\ Fault("close")
        /\ tmp' = StaleTmp(tmp.data)
        /\ UNCHANGED events
  /\ UNCHANGED <<target, buf, back, dir, now, objVars, call>>
  /\ UNCHANGED <<hadRec, pre, last, fresh, extDuring, extMod>>

\* ------------------------------------------------------------------ File._on_write
\* Mutation of AfterCommit: the record is refreshed after every commit, that
\* of a direct open('w') ... close() included.
AfterCommit_Always ==
  /\ pc' = "write_record"
  /\ result' = result

\* After the commit: write()/writelines() go on to _checkoverwrite, a direct
\* open('w') ... close() is over.
AfterCommit ==
  /\ pc' = IF call.op \in WriteOps THEN "write_record" ELSE "done"
  /\ result' = IF call.op \in WriteOps THEN result ELSE "ok"

\* A step of the commit fails: the exception leaves the method.
CommitFails(r, s) ==
  /\ Finish(r)
  /\ faultAt' = s
  /\ tmp' = IF tmp.exists THEN StaleTmp(tmp.data) ELSE tmp

\* "assert os.path.isfile(tmp)"; on Unix "os.rename(tmp, self.path)", which
\* replaces the target in one step; on Windows the same rename when the target
\* does not exist, else the steps below.
OnWrite ==
  /\ pc = "on_write"
  /\ IF ~tmp.exists
     THEN CommitFails("IOError", faultAt) /\ UNCHANGED <<target, events>>
     ELSE IF isWindows /\ target.exists
     THEN pc' = "win_rmback" /\ UNCHANGED <<target, tmp, events, faultAt, result>>
     ELSE \/ /\ target' = tmp
             /\ tmp' = NoFile
             /\ events' = Append(events, "rename")
             /\ AfterCommit
             /\ UNCHANGED faultAt
          \/ /\ CommitFails("IOError", "rename")
             /\ UNCHANGED <<target, events>>
  /\ UNCHANGED <<buf, back, dir, now, objVars, call>>
  /\ fresh' = (fresh /\ target' = target)
  /\ UNCHANGED <<hadRec, pre, last, extDuring, extMod>>

\* Windows: "back = self.path + '~'; if os.path.isfile(back): os.remove(back)"
WinRmBack ==
  /\ pc = "win_rmback"
  /\ IF ~back.exists
     THEN pc' = "win_mvback" /\ UNCHANGED <<tmp, back, events, result, faultAt>>
     ELSE \/ /\ back' = NoFile
             /\ events' = Append(events, "rmback")
             /\ pc' = "win_mvback"
             /\ UNCHANGED <<tmp, result, faultAt>>
          \/ /\ CommitFails("IOError", "rmback")
             /\ UNCHANGED <<back, events>>
  /\ UNCHANGED <<target, buf, dir, now, objVars, call>>
  /\ UNCHANGED <<hadRec, pre, last, fresh, extDuring, extMod>>

\* Mutation of WinMvBack: the target is removed instead of being kept as backup.
WinMvBack_Delete ==
  /\ pc = "win_mvback"
  /\ \/ /\ target.exists /\ ~back.exists
        /\ target' = NoFile
        /\ events' = Append(events, "backup")
        /\ pc' = "win_mvtmp"
        /\ UNCHANGED <<tmp, back, result, faultAt>>
     \/ /\ ~(target.exists /\ ~back.exists)
        /\ CommitFails("IOError", faultAt)
        /\ UNCHANGED <<target, back, events>>
     \/ /\ CommitFails("IOError", "backup")
        /\ UNCHANGED <<target, back, events>>
  /\ UNCHANGED <<buf, dir, now, objVars, call>>
  /\ fresh' = (fresh /\ target' = target)
  /\ UNCHANGED <<hadRec, pre, last, extDuring, extMod>>

\* Windows: "os.rename(self.path, back)" (fails when back exists, or the target is gone)
WinMvBack ==
  /\ pc = "win_mvback"
  /\ \/ /\ target.exists /\ ~back.exists
        /\ back' = Backup(target.data)
        /\ target' = NoFile
        /\ events' = Append(events, "backup")
        /\ pc' = "win_mvtmp"
        /\ UNCHANGED <<tmp, result, faultAt>>
     \/ /\ ~(target.exists /\ ~back.exists)
        /\ CommitFails("IOError", faultAt)
        /\ UNCHANGED <<target, back, events>>
     \/ /\ CommitFails("IOError", "backup")
        /\ UNCHANGED <<target, back, events>>
  /\ UNCHANGED <<buf, dir, now, objVars, call>>
  /\ fresh' = (fresh /\ target' = target)
  /\ UNCHANGED <<hadRec, pre, last, extDuring, extMod>>

\* Windows: "os.rename(tmp, self.path)" (fails when the target exists)
WinMvTmp ==
  /\ pc = "win_mvtmp"
  /\ \/ /\ ~target.exists
        /\ target' = tmp
        /\ tmp' = NoFile
        /\ events' = Append(events, "rename")
        /\ pc' = "win_rmnew"
        /\ UNCHANGED <<result, faultAt>>
     \/ /\ target.exists
        /\ CommitFails("IOError", faultAt)
        /\ UNCHANGED <<target, events>>
     \/ /\ CommitFails("IOError", "rename")
        /\ UNCHANGED <<target, events>>
  /\ UNCHANGED <<buf, back, dir, now, objVars, call>>
  /\ fresh' = (fresh /\ target' = target)
  /\ UNCHANGED <<hadRec, pre, last, extDuring, extMod>>

\* Mutation of WinRmNew: the backup is left in place after the commit.
WinRmNew_Keep ==
  /\ pc = "win_rmnew"
  /\ AfterCommit
  /\ UNCHANGED <<fsVars, objVars, call, histVars>>

\* Windows: "os.remove(back)"
WinRmNew ==
  /\ pc = "win_rmnew"
  /\ \/ /\ back.exists
        /\ back' = NoFile
        /\ events' = Append(events, "unbackup")
        /\ AfterCommit
        /\ UNCHANGED faultAt
     \/ /\ ~back.exists
        /\ Finish("IOError")
        /\ UNCHANGED <<back, events, faultAt>>
     \/ /\ Fault("unbackup")
        /\ UNCHANGED <<back, events>>
  /\ UNCHANGED <<target, tmp, buf, dir, now, objVars, call>>
  /\ UNCHANGED <<hadRec, pre, last, fresh, extDuring, extMod>>

\* write()/writelines(): "self._checkoverwrite(text)" after file.close()
WriteRecord ==
  /\ pc = "write_record"
  /\ CheckOverwrite(call.arg)
  /\ extMod' = IF checkoverwrite /\ target.exists THEN "noread" ELSE extMod
  /\ UNCHANGED <<fsVars, isWindows, checkoverwrite, call>>
  /\ UNCHANGED <<events, hadRec, pre, last, extDuring, faultAt>>

\* ------------------------------------------------------------------ File.touch
TouchBegin ==
  /\ Enter("touch", <<>>, "touch_exists")
  /\ UNCHANGED extMod

\* "if self.exists(): return; else: io = self.open('w'); io.write(''); io.close()"
TouchExists ==
  /\ pc = "touch_exists"
  /\ IF target.exists
     THEN Finish("ok")
     ELSE pc' = "iswritable" /\ UNCHANGED result
  /\ UNCHANGED <<fsVars, objVars, call, histVars>>

\* ------------------------------------------------------------------ File.remove
RemoveBegin ==
  /\ Enter("remove", <<>>, "remove_target")
  /\ UNCHANGED extMod

\* "if os.path.isfile(self.path): os.remove(self.path)"
RemoveTarget ==
  /\ pc = "remove_target"
  /\ target' = NoFile
  /\ pc' = "remove_tmp"
  /\ fresh' = FALSE
  /\ UNCHANGED <<tmp, buf, back, dir, now, objVars, call, result>>
  /\ UNCHANGED <<events, hadRec, pre, last, extDuring, extMod, faultAt>>

\* Mutation of RemoveTmp: remove() deletes the target only.
RemoveTmp_Keep ==
  /\ pc = "remove_tmp"
  /\ Finish("ok")
  /\ UNCHANGED <<target, tmp, buf, back, dir, now, objVars, call, histVars>>

\* "tmp = self.path + '.zim.new~'; if os.path.isfile(tmp): os.remove(tmp)"
RemoveTmp ==
  /\ pc = "remove_tmp"
  /\ tmp' = NoFile
  /\ Finish("ok")
  /\ UNCHANGED <<target, buf, back, dir, now, objVars, call, histVars>>

\* ------------------------------------------------------------------ the File object
\* The caller sets file.checkoverwrite (a plain attribute; nothing else changes).
SetCheckoverwrite(b) ==
  /\ pc = "idle" /\ b # checkoverwrite
  /\ checkoverwrite' = b
  /\ UNCHANGED <<fsVars, isWindows, mtime_, content_, procVars, histVars>>

\* ------------------------------------------------------------------ crash
\* What a crash (of the process or of the machine) leaves of a file: data
\* that was not synced survives in part, in full or not at all.
Survivors(f) ==
  IF f.exists /\ ~f.synced
  THEN {[f EXCEPT !.data = d, !.synced = TRUE] : d \in Prefixes(f.data)}
  ELSE {f}

\* The process dies in the middle of a method; the handle's buffer is lost.
Crash ==
  /\ pc \notin {"idle", "done", "crashed"}
  /\ pc' = "crashed"
  /\ target' \in Survivors(target)
  /\ \E f \in Survivors(tmp) : tmp' = IF f.exists THEN StaleTmp(f.data) ELSE f
  /\ back' \in Survivors(back)
  /\ buf' = <<>>
  /\ fresh' = FALSE
  /\ UNCHANGED <<dir, now, objVars, call, result>>
  /\ UNCHANGED <<events, hadRec, pre, last, extDuring, extMod, faultAt>>

\* After a crash the program starts again: File.__init__(path, checkoverwrite)
Restart(c) ==
  /\ pc = "crashed"
  /\ pc' = "idle" /\ call' = NoCall /\ result' = "none"
  /\ checkoverwrite' = c /\ mtime_' = NoneT /\ content_' = <<>>
  /\ events' = <<>> /\ hadRec' = FALSE /\ pre' = NoFile /\ fresh' = FALSE
  /\ last' = NoLast
  /\ extDuring' = FALSE /\ extMod' = "noread" /\ faultAt' = "none"
  /\ UNCHANGED <<fsVars, isWindows>>

\* ------------------------------------------------------------------ specification
Datas == {Encode(t) : t \in Texts}

\* the steps of other processes
Environment ==
  \/ \E d \in Datas : ExtWrite(d)
  \/ ExtTouch
  \/ ExtDelete
  \/ ExtChmod
  \/ ExtDir
  \/ Tick

\* the steps of the program, whatever the platform
Program ==
  \/ \E op \in ReadOps : ReadBegin(op)
  \/ ReadExists
  \/ ReadOpen
  \/ ReadRecord
  \/ \E t \in Texts : WriteBegin("write", t)
  \/ \E ls \in LineLists : WriteBegin("writelines", Flatten(ls))
  \/ AssertStat
  \/ AssertMd5
  \/ \E t \in Texts : OpenBegin(t)
  \/ IsWritable
  \/ DirTouch
  \/ OpenTmp
  \/ WriteTmp
  \/ Flush
  \/ Fsync
  \/ Close
  \/ OnWrite
  \/ WriteRecord
  \/ TouchBegin
  \/ TouchExists
  \/ RemoveBegin
  \/ RemoveTarget
  \/ RemoveTmp
  \/ \E b \in BOOLEAN : SetCheckoverwrite(b)
  \/ Crash
  \/ \E c \in BOOLEAN : Restart(c)
  \/ Return

Next == Environment \/ Program

\* the program on Unix
Spec == Init /\ [][Next]_vars

\* The commit of write() on Windows: one caller reading and writing call
\* after call, crashes included; other processes write the target and leave
\* backup files.  (On Unix the Win steps are never enabled.)
NextWin ==
  \/ \E d \in Datas : ExtWrite(d)
  \/ \E d \in Datas : ExtBackup(d)
  \/ Tick
  \/ ReadBegin("read")
  \/ ReadExists
  \/ ReadOpen
  \/ ReadRecord
  \/ \E t \in Texts : WriteBegin("write", t)
  \/ AssertStat
  \/ AssertMd5
  \/ IsWritable
  \/ DirTouch
  \/ OpenTmp
  \/ WriteTmp
  \/ Flush
  \/ Fsync
  \/ Close
  \/ OnWrite
  \/ WinRmBack
  \/ WinMvBack
  \/ WinMvTmp
  \/ WinRmNew
  \/ WriteRecord
  \/ Crash
  \/ \E c \in BOOLEAN : Restart(c)
  \/ Return
  \/ ReturnOn

\* the program on Windows
SpecWin == InitWin /\ [][NextWin]_vars

\* the same on either platform
InitAny == InitCommon /\ isWindows \in BOOLEAN

SpecAny == InitAny /\ [][NextWin]_vars

\* One caller working on the File call after call (on Unix): the history
\* keeps the last call.  Without crashes and without the list variants of read
\* and write; other processes write, delete and chmod the target.
NextSeq ==
  \/ \E d \in Datas : ExtWrite(d)
  \/ ExtDelete
  \/ ExtChmod
  \/ Tick
  \/ ReadBegin("read")
  \/ ReadExists
  \/ ReadOpen
  \/ ReadRecord
  \/ \E t \in Texts : WriteBegin("write", t)
  \/ AssertStat
  \/ AssertMd5
  \/ \E t \in Texts : OpenBegin(t)
  \/ IsWritable
  \/ DirTouch
  \/ OpenTmp
  \/ WriteTmp
  \/ Flush
  \/ Fsync
  \/ Close
  \/ OnWrite
  \/ WriteRecord
  \/ TouchBegin
  \/ TouchExists
  \/ RemoveBegin
  \/ RemoveTarget
  \/ RemoveTmp
  \/ Return
  \/ ReturnOn

SpecSeq == Init /\ [][NextSeq]_vars

\* ------------------------------------------------------------------ properties
\* the methods that run the temp-file protocol
WritingOps == WriteOps \cup {"open", "touch"}

\* the temp file was renamed onto the target in this call
Committed == \E i \in DOMAIN events : events[i] = "rename"

\* the step that renames the temp file onto the target
CommitStep == Len(events') = Len(events) + 1 /\ events'[Len(events')] = "rename"

\* the step at which a method ends (with a result or an exception)
EndStep == pc # "done" /\ pc' = "done"

\* C1: crash atomicity on Unix.  When the process (or the machine) dies in
\* the middle of a writing call that no other process interfered with, the
\* target is exactly what it was when the call began if the rename had not
\* been done, and exactly the complete new content if it had.
C1_CrashAtomic ==
  (pc = "crashed" /\ ~isWindows /\ call.op \in WritingOps /\ ~extDuring) =>
    IF Committed
    THEN target.exists /\ target.data = Encode(call.arg)
    ELSE target = pre

C1_Witness ==
  /\ pc = "crashed" /\ ~isWindows /\ call.op = "write" /\ ~extDuring
  /\ Committed
  /\ pre.exists /\ pre.data # target.data
  /\ call.arg # <<>> /\ target.data = Encode(call.arg)

\* C2: commit ordering on Unix.  The system calls of one writing call are,
\* in this order and each only after the one before has succeeded: open the
\* temp file, write, flush, fsync, close, rename.
UnixOrder == <<"open", "write", "flush", "fsync", "close", "rename">>

C2_CommitOrder ==
  ~isWindows =>
    /\ Len(events) <= Len(UnixOrder)
    /\ \A i \in DOMAIN events : events[i] = UnixOrder[i]

C2_Witness ==
  /\ ~isWindows /\ call.op = "write" /\ events = UnixOrder
  /\ target.data = Encode(call.arg) /\ call.arg # <<>>

\* C3: conflict detection.  With checkoverwrite set, a write()/writelines()
\* that starts when the target's modification time and content both differ
\* from the record, and that no other process interferes with, ends with the
\* 'File changed on disk' error, has opened no temp file and done no rename,
\* and leaves the target as it found it.
C3_ConflictDetected ==
  [][(/\ EndStep /\ call.op \in WriteOps /\ checkoverwrite /\ ~extDuring'
      /\ Truthy(mtime_) /\ pre.exists
      /\ pre.mtime # mtime_ /\ md5(Decode(pre.data)) # md5(content_))
     => (/\ result' = "Conflict"
         /\ events' = <<>>
         /\ target' = pre /\ tmp' = tmp
         /\ mtime_' = mtime_ /\ content_' = content_)]_vars

C3_Witness ==
  /\ pc = "done" /\ result = "Conflict" /\ call.op = "write"
  /\ checkoverwrite /\ ~extDuring /\ extMod = "modified"
  /\ target = pre /\ events = <<>>
  /\ target.mtime # mtime_ /\ Decode(target.data) # content_
  /\ call.arg # content_ /\ call.arg # Decode(target.data)

\* C4 as stated: with checkoverwrite set and a record at hand, a write never
\* commits once another process has changed both the modification time and
\* the content of the target after the last read took its content.
C4_NeverClobbers ==
  [][(CommitStep /\ call.op \in WriteOps /\ checkoverwrite /\ hadRec)
     => extMod # "modified"]_vars

\* C4, amended: a write()/writelines() with a record at hand that no other
\* process interferes with commits only over a target whose modification time
\* or whose content is the recorded one: a target that differs from the
\* record in both is never replaced.
C4_NoClobberWhenQuiet ==
  [][(CommitStep /\ call.op \in WriteOps /\ hadRec /\ ~extDuring)
     => (/\ pre.exists /\ target = pre
         /\ (pre.mtime = mtime_ \/ md5(Decode(pre.data)) = md5(content_)))]_vars

C4_Witness ==
  /\ pc = "done" /\ result = "Conflict" /\ call.op = "writelines"
  /\ checkoverwrite /\ hadRec /\ ~extDuring /\ extMod = "modified"
  /\ ~Committed /\ target = pre
  /\ pre.mtime # mtime_ /\ Decode(pre.data) # content_

\* C5: false-positive avoidance.  With checkoverwrite set, a write() that
\* starts when the target's modification time differs from the record but its
\* content is the recorded one is not refused; unless an I/O step fails or
\* the target is read-only it commits and the target holds the new content.
C5_TouchIsNoConflict ==
  [][(/\ EndStep /\ call.op \in WriteOps /\ checkoverwrite /\ ~extDuring'
      /\ Truthy(mtime_) /\ pre.exists
      /\ pre.mtime # mtime_ /\ md5(Decode(pre.data)) = md5(content_))
     => (/\ result' # "Conflict"
         /\ ((faultAt' = "none" /\ pre.mode)
              => (/\ result' = "ok" /\ Committed'
                  /\ target'.exists /\ target'.data = Encode(call.arg))))]_vars

C5_Witness ==
  /\ pc = "write_record" /\ call.op = "write" /\ checkoverwrite
  /\ hadRec /\ ~extDuring /\ extMod = "clean"
  /\ pre.mtime # mtime_ /\ Decode(pre.data) = content_
  /\ Committed /\ target.data = Encode(call.arg) /\ call.arg # content_

\* C6: no read, no conflict.  With checkoverwrite set and no record at hand,
\* a write() is never refused as a conflict, whatever other processes do; it
\* reports success only after the rename, and when nothing interferes, no
\* I/O step fails and the target is not read-only, it commits: the target
\* holds the new content and the record is the one of the file just written.
C6_NoReadNoConflict ==
  (pc = "done" /\ call.op \in WriteOps /\ checkoverwrite /\ ~hadRec) =>
    /\ result # "Conflict"
    /\ (result = "ok" => Committed)
    /\ ((~extDuring /\ faultAt = "none" /\ (pre.exists => pre.mode))
         => (/\ result = "ok"
             /\ target.exists /\ target.data = Encode(call.arg)
             /\ mtime_ = target.mtime /\ content_ = call.arg))

C6_Witness ==
  /\ pc = "done" /\ call.op = "write" /\ checkoverwrite /\ ~hadRec
  /\ extDuring /\ result = "ok"
  /\ target.exists /\ target.data = Encode(call.arg) /\ call.arg # <<>>

\* C7: no self-conflict.  As long as nothing but this File's own read(),
\* readlines(), write() and writelines() has touched the target since the
\* record was taken, the record is the modification time and the content of
\* the target, and no write is refused as a conflict.
C7_NoSelfConflict ==
  /\ fresh => (/\ Truthy(mtime_) /\ target.exists
               /\ mtime_ = target.mtime /\ content_ = Decode(target.data))
  /\ (pc = "done" /\ result = "Conflict") => ~fresh

C7_Witness ==
  /\ pc = "iswritable" /\ call.op \in WriteOps /\ checkoverwrite
  /\ hadRec /\ fresh /\ ~extDuring /\ extMod = "noread"
  /\ content_ # <<>> /\ call.arg # content_

\* C8 as stated: a write() made while checkoverwrite is off is never refused
\* as a conflict.
C8_DisabledIsUnchecked ==
  (pc = "done" /\ call.op \in WriteOps /\ ~checkoverwrite) => result # "Conflict"

\* C9: a failure before the commit leaves the target untouched.  When
\* creating the directory, opening the temp file, writing, flush, fsync or
\* closing fails, the call ends with the error, the rename is not done, and
\* (nothing else interfering) the target is what it was when the call began.
PreCommitSteps == {"mkdir", "open", "write", "flush", "fsync", "close"}

C10_AlwaysNotWritable ==
  (/\ pc = "done" /\ call.op \in WriteOps \cup {"open"} /\ ~extDuring
   /\ pre.exists /\ ~pre.mode)
  => (result = "NotWritable" /\ events = <<>> /\ target = pre)

\* C10, amended: writing to an existing read-only target is refused before
\* any temp file or directory is made and without touching the target: by the
\* 'File is not writable' error, or, in write()/writelines() with a record
\* from which the target differs in modification time and content, by the
\* 'File changed on disk' error, which is checked first.
C10_RefusedBeforeEffect ==
  (/\ pc = "done" /\ call.op \in WriteOps \cup {"open"} /\ ~extDuring
   /\ pre.exists /\ ~pre.mode)
  => (/\ result \in {"NotWritable", "Conflict"}
      /\ (result = "Conflict"
           => (/\ call.op \in WriteOps /\ hadRec
               /\ pre.mtime # mtime_ /\ md5(Decode(pre.data)) # md5(content_)))
      /\ events = <<>>
      /\ target = pre /\ dir)

C10_Witness ==
  /\ pc = "done" /\ call.op = "write" /\ ~extDuring
  /\ pre.exists /\ ~pre.mode /\ target = pre
  /\ hadRec /\ pre.mtime = mtime_
  /\ result = "NotWritable" /\ events = <<>>

\* C11: round trip.  A read() that directly follows a successful write(X) of
\* the same File, no other process acting in between, succeeds and returns
\* exactly X, the empty text included.
C11_RoundTrip ==
  (pc = "done" /\ call.op = "read" /\ last.op = "write" /\ last.result = "ok") =>
    (result = "ok" /\ call.got = last.arg)

C11_Witness ==
  /\ pc = "done" /\ call.op = "read" /\ result = "ok"
  /\ last.op = "write" /\ last.result = "ok"
  /\ last.arg # <<>> /\ call.got = last.arg /\ Len(call.got) = MaxLen

\* C12 as stated: repeatable after failure.  When a write() has failed with
\* an I/O error and left a temp file behind, the write() the caller makes
\* next, no other process acting and no further I/O error occurring, succeeds
\* and the target holds exactly the text of that second write.
C12_RetrySucceeds ==
  (/\ pc = "done" /\ call.op = "write" /\ faultAt = "none"
   /\ last.op = "write" /\ last.result = "IOError" /\ last.fault = "tmp")
  => (/\ result = "ok"
      /\ target.exists /\ target.data = Encode(call.arg)
      /\ ~tmp.exists)

\* C13: idempotent cleanup.  remove(), no other process interfering,
\* ends without error whether or not the target and the temp file exist, and
\* leaves neither of them; so does a second remove() right after the first.
C13_RemoveIdempotent ==
  (pc = "done" /\ call.op = "remove" /\ ~extDuring) =>
    /\ result = "ok"
    /\ ~target.exists /\ ~tmp.exists
    /\ (last.op = "remove" => (last.result = "ok" /\ ~pre.exists))

C13_Witness ==
  /\ pc = "done" /\ call.op = "remove" /\ ~extDuring /\ result = "ok"
  /\ last.op = "remove" /\ last.result = "ok"
  /\ ~target.exists /\ ~tmp.exists

\* a first remove() that found both the target and a stray temp file
C13_BothPresent ==
  /\ pc = "done" /\ call.op = "remove" /\ ~extDuring /\ result = "ok"
  /\ last.op = "write" /\ last.fault = "tmp" /\ pre.exists
  /\ ~target.exists /\ ~tmp.exists

\* the system call e of the commit was done in this call
Did(e) == \E i \in DOMAIN events : events[i] = e

\* C14: the state after a commit, on either platform.  When write(X) has
\* ended without error, no other process interfering, the target holds
\* exactly X and the temp file is gone; when the commit went by way of the
\* backup file (Windows, target present), the backup file is gone as well,
\* also when a stale one was there before.
C14_PostCommit ==
  (pc = "done" /\ call.op = "write" /\ result = "ok" /\ ~extDuring) =>
    /\ target.exists /\ target.data = Encode(call.arg)
    /\ ~tmp.exists
    /\ Did("rename")
    /\ (Did("backup") <=> (isWindows /\ pre.exists))
    /\ (Did("backup") => ~back.exists)

C14_Witness ==
  /\ pc = "done" /\ call.op = "write" /\ result = "ok" /\ ~extDuring
  /\ isWindows /\ Did("rmback") /\ Did("backup") /\ Did("unbackup")
  /\ pre.exists /\ pre.data # Encode(call.arg)
  /\ target.data = Encode(call.arg) /\ ~tmp.exists /\ ~back.exists

\* the same on the atomic path of Unix
C14_UnixReached ==
  /\ pc = "done" /\ call.op = "write" /\ result = "ok" /\ ~extDuring
  /\ ~isWindows /\ pre.exists /\ pre.data # Encode(call.arg)
  /\ target.data = Encode(call.arg) /\ ~tmp.exists

\* C15: the Windows commit loses no data.  From the close of the temp file
\* on, in every state of a write() over an existing target that no other
\* process interferes with (between the steps, after a failed step, after a
\* crash): until the temp file has been renamed onto the target the complete
\* old content is at the target or, once the target has been renamed away, at
\* the backup path; the complete new content is at the temp path or at the
\* target; and the target is missing exactly between the two renames.
C15_NoDataLost ==
  (/\ isWindows /\ call.op = "write" /\ ~extDuring
   /\ pre.exists /\ Did("close"))
  => (/\ (~Did("backup")
             => (target.exists /\ target.data = pre.data))
      /\ ((Did("backup") /\ ~Did("rename"))
             => (back.exists /\ back.data = pre.data))
      /\ IF Did("rename")
         THEN target.exists /\ target.data = Encode(call.arg) /\ ~tmp.exists
         ELSE tmp.exists /\ tmp.data = Encode(call.arg)
      /\ (~target.exists <=> (Did("backup") /\ ~Did("rename"))))

C15_Witness ==
  /\ isWindows /\ call.op = "write" /\ ~extDuring /\ pc = "crashed"
  /\ pre.exists /\ Did("rmback") /\ Did("backup") /\ ~Did("rename")
  /\ ~target.exists /\ back.data = pre.data
  /\ tmp.data = Encode(call.arg) /\ tmp.data # pre.data

\* C16: a write() that does not commit leaves the record alone.  No step of
\* a write() changes _mtime or _content before the rename is done, so a write
\* refused as a conflict or as not writable, or failed before the rename,
\* ends with the record it began with.  Hence a write() repeated right after
\* a conflict is a conflict again, and a write() right after a read() of the
\* existing file is not: it commits unless the target is read-only or an I/O
\* step fails.
C16_RecordKept ==
  [][/\ (call.op = "write" /\ call'.op = "write" /\ ~Did("rename")')
          => (mtime_' = mtime_ /\ content_' = content_)
     /\ (EndStep /\ call.op = "write" /\ last.op = "write" /\ last.result = "Conflict")
          => (result' = "Conflict" /\ events' = <<>>)
     /\ (/\ EndStep /\ call.op = "write" /\ checkoverwrite
         /\ last.op = "read" /\ last.result = "ok" /\ pre.exists)
          => (/\ result' # "Conflict"
              /\ ((faultAt' = "none" /\ pre.mode)
                   => (/\ result' = "ok"
                       /\ target'.exists /\ target'.data = Encode(call.arg))))]_vars

C16_Witness ==
  /\ pc = "done" /\ call.op = "write" /\ result = "Conflict"
  /\ last.op = "write" /\ last.result = "Conflict"
  /\ checkoverwrite /\ hadRec /\ events = <<>>
  /\ target.exists /\ target.mtime # mtime_ /\ Decode(target.data) # content_

\* the write() after the fresh read() of the file another process had changed
C16_AfterReread ==
  /\ pc = "done" /\ call.op = "write" /\ result = "ok" /\ checkoverwrite
  /\ last.op = "read" /\ last.result = "ok" /\ extMod = "noread"
  /\ target.data = Encode(call.arg) /\ call.arg # <<>>

\* C17: the target is missing and a record is at hand.  A write() that
\* starts with a record while the target does not exist (another process
\* deleted it, or this File's remove() did, which keeps the record), and that
\* no other process interferes with, ends with the error of os.stat: it is
\* neither a conflict nor a success, no temp file is opened, the target stays
\* missing and the record stays as it is, so that the next write() ends the
\* same way.
C17_MissingTargetFails ==
  [][(/\ EndStep /\ call.op = "write" /\ ~extDuring'
      /\ Truthy(mtime_) /\ ~pre.exists)
     => (/\ result' = "IOError" /\ faultAt' = "none"
         /\ events' = <<>> /\ tmp' = tmp
         /\ ~target'.exists
         /\ mtime_' = mtime_ /\ content_' = content_)]_vars

C17_Witness ==
  /\ pc = "done" /\ call.op = "write" /\ result = "IOError" /\ faultAt = "none"
  /\ last.op = "remove" /\ last.result = "ok"
  /\ Truthy(mtime_) /\ ~target.exists /\ ~tmp.exists /\ events = <<>>

\* the write() repeated after such a failure
C17_FailsAgain ==
  /\ pc = "done" /\ call.op = "write" /\ result = "IOError" /\ faultAt = "none"
  /\ last.op = "write" /\ last.result = "IOError" /\ last.fault = "none"
  /\ Truthy(mtime_) /\ ~target.exists /\ events = <<>>

\* C18: reading a missing file records nothing.  read() and readlines() on
\* a target that does not exist return at once with the empty result and
\* without error, create nothing and leave _mtime and _content as they were
\* (they go on to open the file only when it exists).  So with checkoverwrite
\* set and no record at hand a write() is never refused as a conflict: it
\* commits over a target that another process has created meanwhile, unless
\* the target is read-only, an I/O step fails or another process interferes
\* with the write itself.
C18_MissingReadNoRecord ==
  [][/\ (pc = "read_exists" /\ pc' \in {"done", "read_open"})
          => IF target.exists
             THEN pc' = "read_open"
             ELSE /\ pc' = "done" /\ result' = "ok" /\ call'.got = <<>>
                  /\ target' = target /\ tmp' = tmp /\ back' = back /\ dir' = dir
                  /\ mtime_' = mtime_ /\ content_' = content_
     /\ (/\ EndStep /\ call.op \in WriteOps /\ checkoverwrite /\ ~hadRec
         /\ ~extDuring' /\ pre.exists)
          => (/\ result' # "Conflict"
              /\ ((faultAt' = "none" /\ pre.mode)
                   => (/\ result' = "ok" /\ Committed'
                       /\ target'.data = Encode(call.arg))))]_vars

C18_Witness ==
  /\ pc = "done" /\ call.op \in ReadOps /\ result = "ok" /\ call.got = <<>>
  /\ ~extDuring /\ ~pre.exists /\ ~target.exists /\ ~tmp.exists
  /\ checkoverwrite /\ mtime_ = NoneT

\* the write() without a record that replaces what another process wrote
C18_Overwrites ==
  /\ pc = "write_record" /\ call.op \in WriteOps /\ checkoverwrite /\ ~hadRec
  /\ ~extDuring /\ pre.exists /\ Committed
  /\ pre.data # target.data /\ target.data = Encode(call.arg)

\* the calls that use open('w') directly
DirectOps == {"open", "touch"}

\* C19: a direct open('w') ... close() (touch() is one) goes past the check
\* in both directions.  It uses the same protocol as write(): when it ends
\* without error after opening the temp file, the system calls done are
\* open, write, flush, fsync, close, rename.  It is never refused as a
\* conflict: without interference, I/O error or read-only target it commits,
\* whatever the record says about the file.  And no step of it changes
\* _mtime or _content: the write() that follows is checked against the
\* record from before the direct write.
C19_DirectOpenUnchecked ==
  [][/\ (call.op \in DirectOps /\ call'.op = call.op)
          => (mtime_' = mtime_ /\ content_' = content_ /\ result' # "Conflict")
     /\ (EndStep /\ call.op \in DirectOps /\ result' = "ok" /\ events' # <<>>)
          => events' = UnixOrder
     /\ (/\ EndStep /\ call.op = "open" /\ ~extDuring'
         /\ faultAt' = "none" /\ (pre.exists => pre.mode))
          => (/\ result' = "ok" /\ Committed'
              /\ target'.exists /\ target'.data = Encode(call.arg))
     /\ (/\ EndStep /\ call.op = "write" /\ last.op = "open" /\ last.result = "ok"
         /\ Truthy(mtime_) /\ pre.mtime # mtime_
         /\ md5(Decode(pre.data)) # md5(content_))
          => result' = "Conflict"]_vars

\* a write() refused because of the caller's own direct write: no other
\* process has changed the file since it was read
C19_Witness ==
  /\ pc = "done" /\ call.op = "write" /\ result = "Conflict"
  /\ last.op = "open" /\ last.result = "ok"
  /\ checkoverwrite /\ hadRec /\ extMod = "clean"
  /\ target.mtime # mtime_ /\ Decode(target.data) # content_

\* a direct write committed over what another process had changed since the read
C19_CommitsOverChange ==
  /\ pc = "done" /\ call.op = "open" /\ result = "ok" /\ ~extDuring
  /\ checkoverwrite /\ hadRec /\ extMod = "modified"
  /\ pre.mtime # mtime_ /\ Decode(pre.data) # content_
  /\ target.data = Encode(call.arg) /\ target.data # pre.data

====
